---- MODULE Spec2Model ----
(***************************************************************************)
(* tweet-pandas: the text-cleansing (CleanseText) and tweet-parsing        *)
(* (TweetParser) accessors for pandas Series, as a state machine.          *)
(*                                                                         *)
(* A text value is a sequence of characters.  A character is a string: an  *)
(* ASCII character is itself ("a", "@", " "), any other character is named *)
(* by its code point ("U+000A" is the newline, "U+201C" the left curly     *)
(* double quote).  A Series is a sequence of cells; a cell is a text value *)
(* or the missing value NaN.                                               *)
(***************************************************************************)
EXTENDS Integers, Sequences, FiniteSets, TLC

VARIABLES obj, result, raised, call, origin

vars == <<obj, result, raised, call, origin>>

(***************************************************************************)
(* Characters and the character classes of Python's re module, restricted  *)
(* to the characters the model uses.                                       *)
(***************************************************************************)
LF == "U+000A"
TAB == "U+0009"
BACKSLASH == "\\"
LDQUO == "U+201C"
RDQUO == "U+201D"
LSQUO == "U+2018"
RSQUO == "U+2019"
HELLIP == "U+2026"
ACIRC == "U+00E2"
EURO == "U+20AC"
BRVBAR == "U+00A6"
GRIN == "U+1F600"
CYCLONE == "U+1F300"
ROCKET == "U+1F680"
FLAG_A == "U+1F1E6"
HEART == "U+2764"

Upper == {"R", "T"}
Lower == {"a", "b", "c", "d", "e", "h", "n", "p", "r", "s", "t", "x"}
Digit == {"0", "2", "6", "8", "9"}
Space == {" ", LF, TAB}
NonAscii ==
    {LDQUO, RDQUO, LSQUO, RSQUO, HELLIP, ACIRC, EURO, BRVBAR,
     GRIN, CYCLONE, ROCKET, FLAG_A, HEART}
Ascii ==
    Upper \cup Lower \cup Digit \cup {" ", LF, TAB}
        \cup {"@", "#", ":", "/", ";", ".", ",", "!", "+", "_", "%", "\"", "'", BACKSLASH, "~"}
Chars == Ascii \cup NonAscii

\* str.upper / str.lower on one character, for re.IGNORECASE.
SwapCase(c) ==
    CASE c = "R" -> "r"
      [] c = "r" -> "R"
      [] c = "T" -> "t"
      [] c = "t" -> "T"
      [] OTHER -> c

\* \w on str patterns: Unicode letters, digits and the underscore.
WordChars == Upper \cup Lower \cup Digit \cup {"_", ACIRC}

(***************************************************************************)
(* Regular expressions.  A pattern is                                      *)
(*   [behind |-> a negative lookbehind (a sequence of items, <<>> if none),*)
(*    alts   |-> the alternatives, in order, each a sequence of items,     *)
(*    group  |-> the item that is capture group 1 (0: no group)]           *)
(* and an item is [kind |-> "run", unit, min, max] (a unit, which is a      *)
(* sequence of character classes, under a greedy quantifier; max = -1 for  *)
(* no upper limit), [kind |-> "bol"] (^) or [kind |-> "eol"] ($).          *)
(***************************************************************************)
Lit(c) == [kind |-> "run", unit |-> <<{c}>>, min |-> 1, max |-> 1]
Cls(S, lo, hi) == [kind |-> "run", unit |-> <<S>>, min |-> lo, max |-> hi]
Rep(u, lo, hi) == [kind |-> "run", unit |-> u, min |-> lo, max |-> hi]
Bol == [kind |-> "bol", unit |-> <<>>, min |-> 0, max |-> 0]
Eol == [kind |-> "eol", unit |-> <<>>, min |-> 0, max |-> 0]

RECURSIVE Lits(_)
Lits(s) == IF s = <<>> THEN <<>> ELSE <<Lit(Head(s))>> \o Lits(Tail(s))

\* Whether the unit (a sequence of classes) matches text at pos.
UnitAt(unit, text, pos) ==
    /\ pos + Len(unit) - 1 <= Len(text)
    /\ \A j \in DOMAIN unit : text[pos + j - 1] \in unit[j]

\* The number of consecutive copies of unit from position pos, at most cap
\* (cap = -1: no limit).
RECURSIVE RunLen(_, _, _, _)
RunLen(unit, text, pos, cap) ==
    IF cap = 0 \/ ~UnitAt(unit, text, pos)
    THEN 0
    ELSE 1 + RunLen(unit, text, pos + Len(unit), IF cap = -1 THEN -1 ELSE cap - 1)

\* The backtracking matcher: items k.. of items against text from pos.  The
\* result is the sequence of positions reached after each of the items k..
\* (so its last element is the end of the match), or <<0>> on failure.
NoMatch == <<0>>

RECURSIVE MatchItems(_, _, _, _), TryCount(_, _, _, _, _)
MatchItems(items, k, text, pos) ==
    IF k > Len(items)
    THEN <<>>
    ELSE LET e == items[k] IN
         CASE e.kind = "bol" ->
                IF pos = 1
                THEN LET rest == MatchItems(items, k + 1, text, pos)
                     IN  IF rest = NoMatch THEN NoMatch ELSE <<pos>> \o rest
                ELSE NoMatch
           [] e.kind = "eol" ->
                \* $ matches at the end and before a newline that ends the text
                IF pos = Len(text) + 1 \/ (pos = Len(text) /\ text[pos] = LF)
                THEN LET rest == MatchItems(items, k + 1, text, pos)
                     IN  IF rest = NoMatch THEN NoMatch ELSE <<pos>> \o rest
                ELSE NoMatch
           [] OTHER ->
                TryCount(items, k, text, pos, RunLen(e.unit, text, pos, e.max))

\* Greedy: the longest count first, then one fewer, down to the minimum.
TryCount(items, k, text, pos, n) ==
    IF n < items[k].min
    THEN NoMatch
    ELSE LET next == pos + n * Len(items[k].unit)
             rest == MatchItems(items, k + 1, text, next)
         IN  IF rest = NoMatch
             THEN TryCount(items, k, text, pos, n - 1)
             ELSE <<next>> \o rest

\* re.IGNORECASE: every class also holds the other case of its letters.
FoldItem(e) ==
    [e EXCEPT !.unit = [j \in DOMAIN e.unit |->
                          e.unit[j] \cup {SwapCase(c) : c \in e.unit[j]}]]
FoldItems(items) == [i \in DOMAIN items |-> FoldItem(items[i])]
IgnoreCase(pat) ==
    [pat EXCEPT !.behind = FoldItems(pat.behind),
                !.alts = [a \in DOMAIN pat.alts |-> FoldItems(pat.alts[a])]]

\* (?<!...) of a fixed width: the lookbehind matches the characters that end
\* just before pos.
LookbehindMatches(behind, text, pos) ==
    LET w == Len(behind) IN
    /\ pos - w >= 1
    /\ LET m == MatchItems(behind, 1, text, pos - w)
       IN  m # NoMatch /\ m[Len(m)] = pos

\* The match of pat that starts at pos: [start, end (exclusive), gs, ge (the
\* span of group 1)], or NoSpan.  Alternatives are tried in order.
NoSpan == [start |-> 0, end |-> 0, gs |-> 0, ge |-> 0]

RECURSIVE MatchAlt(_, _, _, _), SpanOf(_, _, _, _, _)
MatchAlt(pat, a, text, pos) ==
    IF a > Len(pat.alts)
    THEN NoSpan
    ELSE SpanOf(pat, a, text, pos, MatchItems(pat.alts[a], 1, text, pos))

\* The span of the match m of alternative a at pos, or that of the next
\* alternative when m is a failure.
SpanOf(pat, a, text, pos, m) ==
    IF m = NoMatch \/ pat.alts[a] = <<>>
    THEN MatchAlt(pat, a + 1, text, pos)
    ELSE [start |-> pos,
          end |-> m[Len(m)],
          gs |-> IF pat.group = 0 THEN pos
                 ELSE IF pat.group = 1 THEN pos ELSE m[pat.group - 1],
          ge |-> IF pat.group = 0 THEN m[Len(m)] ELSE m[pat.group]]

MatchAt(pat, text, pos) ==
    IF pat.behind # <<>> /\ LookbehindMatches(pat.behind, text, pos)
    THEN NoSpan
    ELSE MatchAlt(pat, 1, text, pos)

\* The leftmost match at or after pos (re.search, and each step of
\* re.finditer), or NoSpan.
RECURSIVE SearchFrom(_, _, _), SearchOn(_, _, _, _)
SearchFrom(pat, text, pos) ==
    IF pos > Len(text) + 1
    THEN NoSpan
    ELSE SearchOn(pat, text, pos, MatchAt(pat, text, pos))

\* m is the match at pos: the search ends there, or goes on from pos + 1.
SearchOn(pat, text, pos, m) ==
    IF m # NoSpan THEN m ELSE SearchFrom(pat, text, pos + 1)

\* re.finditer: the non-overlapping matches, left to right.
RECURSIVE FindSpans(_, _, _), SpansFrom(_, _, _)
FindSpans(pat, text, pos) == SpansFrom(pat, text, SearchFrom(pat, text, pos))

\* m is the leftmost match: the next search starts at its end, one further
\* after an empty match.
SpansFrom(pat, text, m) ==
    IF m = NoSpan
    THEN <<>>
    ELSE <<m>> \o FindSpans(pat, text, IF m.end > m.start THEN m.end ELSE m.end + 1)

\* text[from .. to-1]
Slice(text, from, to) == SubSeq(text, from, to - 1)

\* re.findall: group 1 of each match when the pattern has a group, else the
\* whole match.
Groups(text, ms) == [i \in DOMAIN ms |-> Slice(text, ms[i].gs, ms[i].ge)]
re_findall(pat, text) == Groups(text, FindSpans(pat, text, 1))

\* re.search(...) is not None
re_search(pat, text) == SearchFrom(pat, text, 1) # NoSpan

\* re.sub with a literal replacement.
RECURSIVE SubFrom(_, _, _, _), SubAt(_, _, _, _, _)
SubFrom(pat, repl, text, pos) ==
    SubAt(pat, repl, text, pos, SearchFrom(pat, text, pos))

\* m is the leftmost match at or after pos: the text before it is kept, repl
\* stands for it, and after an empty match one character is copied.
SubAt(pat, repl, text, pos, m) ==
    IF m = NoSpan
    THEN Slice(text, pos, Len(text) + 1)
    ELSE Slice(text, pos, m.start) \o repl
            \o (IF m.end > m.start
                THEN SubFrom(pat, repl, text, m.end)
                ELSE IF m.end > Len(text) THEN <<>>
                     ELSE <<text[m.end]>> \o SubFrom(pat, repl, text, m.end + 1))

re_sub(pat, repl, text) == SubFrom(pat, repl, text, 1)

(***************************************************************************)
(* Python's str methods used by the code.                                  *)
(***************************************************************************)
\* Whether the literal sub occurs in text at pos.
LiteralAt(sub, text, pos) ==
    /\ pos + Len(sub) - 1 <= Len(text)
    /\ \A j \in DOMAIN sub : text[pos + j - 1] = sub[j]

\* str.split(sep), sep not empty: the pieces between the occurrences of sep,
\* found left to right.  cur is the piece being collected.
RECURSIVE SplitFrom(_, _, _, _)
SplitFrom(text, sep, pos, cur) ==
    IF pos > Len(text)
    THEN <<cur>>
    ELSE IF LiteralAt(sep, text, pos)
         THEN <<cur>> \o SplitFrom(text, sep, pos + Len(sep), <<>>)
         ELSE SplitFrom(text, sep, pos + 1, Append(cur, text[pos]))

str_split(text, sep) == SplitFrom(text, sep, 1, <<>>)

\* str.replace(old, new), old not empty.
RECURSIVE ReplaceFrom(_, _, _, _)
ReplaceFrom(text, old, new, pos) ==
    IF pos > Len(text)
    THEN <<>>
    ELSE IF LiteralAt(old, text, pos)
         THEN new \o ReplaceFrom(text, old, new, pos + Len(old))
         ELSE <<text[pos]>> \o ReplaceFrom(text, old, new, pos + 1)

str_replace(text, old, new) == ReplaceFrom(text, old, new, 1)

\* sep.join(list)
RECURSIVE str_join(_, _)
str_join(sep, list) ==
    IF list = <<>> THEN <<>>
    ELSE IF Len(list) = 1 THEN list[1]
    ELSE list[1] \o sep \o str_join(sep, Tail(list))

\* collections.Counter(list): each element with its number of occurrences.
Counter(list) ==
    [c \in {list[i] : i \in DOMAIN list} |->
        Cardinality({i \in DOMAIN list : list[i] = c})]

(***************************************************************************)
(* The pattern constants of cleanse.py and tweet.py.                       *)
(***************************************************************************)
Pattern(items, g) == [behind |-> <<>>, alts |-> <<items>>, group |-> g]

\* The three escaped bytes of a UTF-8 sequence as they are written in the
\* patterns, \\xe2\\x80\\x9c: in a regular expression, the 12 characters
\* backslash, x, e, 2, backslash, x, 8, 0, backslash, x, 9, c.
EscapedBytes(h, l) ==
    Lits(<<BACKSLASH, "x", "e", "2", BACKSLASH, "x", "8", "0", BACKSLASH, "x", h, l>>)

DOUBLE_QUOTES ==
    [behind |-> <<>>, alts |-> <<EscapedBytes("9", "c"), EscapedBytes("9", "d")>>, group |-> 0]
SINGLE_QUOTES ==
    [behind |-> <<>>, alts |-> <<EscapedBytes("9", "8"), EscapedBytes("9", "9")>>, group |-> 0]
ELIPSES_RULE ==
    [behind |-> <<>>,
     alts |-> <<<<Cls({"."}, 2, -1)>>, EscapedBytes("a", "6"), Lits(<<ACIRC, EURO, BRVBAR>>)>>,
     group |-> 0]

\* [a-zA-Z] | [0-9] | [$-_@.&+] | [!*\(\),] | %[0-9a-fA-F][0-9a-fA-F], repeated:
\* $-_ is the range 0x24..0x5F, which holds % and the hexadecimal digits, so
\* the repetition matches exactly the runs of characters of the first four
\* classes.
UrlChars ==
    Upper \cup Lower \cup Digit
        \cup {"%", "'", "+", ",", ".", "/", ":", ";", "@", BACKSLASH, "_"}
        \cup {"!"}
URLLINK_RULE ==
    Pattern(Lits(<<"h", "t", "t", "p">>) \o <<Cls({"s"}, 0, 1)>>
                \o Lits(<<":", "/", "/">>) \o <<Cls(UrlChars, 1, -1)>>, 0)

HandleChars == Upper \cup Lower \cup Digit \cup {"_"}
HANDLE_MIN == 2
HANDLE_MAX == 15
HANDLE_RULE == <<Lit("@"), Cls(HandleChars, HANDLE_MIN, HANDLE_MAX)>>
\* The rule without its lookbehind.
MENTION_RULE_NoLookbehind == [behind |-> <<>>, alts |-> <<HANDLE_RULE>>, group |-> 2]
\* f"(?<!RT\s){HANDLE_RULE}"
MENTION_RULE ==
    [behind |-> <<Lit("R"), Lit("T"), Cls(Space, 1, 1)>>, alts |-> <<HANDLE_RULE>>, group |-> 2]
\* (?<=RT\s)? is an optional lookbehind: it may match no times, and constrains
\* nothing.
RETWEET_RULE ==
    Pattern(<<Lit("R"), Lit("T"), Cls(Space, 1, 1)>> \o HANDLE_RULE \o <<Lit(":")>>, 5)
HASHTAG_RULE == Pattern(<<Lit("#"), Cls(HandleChars, 1, -1)>>, 2)

EmojiSet == {GRIN, CYCLONE, ROCKET, FLAG_A}
EMOJI_EMOJI_SET == Pattern(<<Cls(EmojiSet, 1, 1)>>, 0)
EMOJI_EMOJI_ALL ==
    Pattern(<<Cls(Chars \ (WordChars \cup Space \cup {",", ".", " "}), 1, 1)>>, 0)

(***************************************************************************)
(* pandas.  A cell is [na, v]: a value v, or the missing value (None, NaN).*)
(* A call returns [value, raised]: the new Series, or the exception.       *)
(***************************************************************************)
Cell(v) == [na |-> FALSE, v |-> v]
NaN == [na |-> TRUE, v |-> <<>>]

Returns(series) == [value |-> series, raised |-> "none"]
Raises(exc) == [value |-> <<>>, raised |-> exc]

\* Series.str.<method>: out[i] is the method's value on the text of row i.
\* The result has the index of the Series; a missing cell stays missing.
StrMethod_DropEmpty(series, out) ==
    LET keep == SelectSeq([i \in DOMAIN series |-> i],
                          LAMBDA i : series[i].na \/ series[i].v # <<>>)
    IN  [k \in DOMAIN keep |->
            IF series[keep[k]].na THEN NaN ELSE Cell(out[keep[k]])]

StrMethod(series, out) ==
    [i \in DOMAIN series |-> IF series[i].na THEN NaN ELSE Cell(out[i])]

\* Series.apply(func) with a func for str: out[i] is func on row i.  On a
\* missing cell func raises exc, and apply lets the exception through.
Apply(series, out, exc) ==
    IF \E i \in DOMAIN series : series[i].na
    THEN Raises(exc)
    ELSE Returns([i \in DOMAIN series |-> Cell(out[i])])

\* Series.str.findall(pat)
str_findall(series, pat) ==
    StrMethod(series, [i \in DOMAIN series |-> re_findall(pat, series[i].v)])

\* Series.str.replace(pat, repl, regex=True)
str_replace_regex(series, pat, repl) ==
    StrMethod(series, [i \in DOMAIN series |-> re_sub(pat, repl, series[i].v)])

\* Series.str.replace(pat, repl, regex=False)
str_replace_literal(series, old, new) ==
    StrMethod(series, [i \in DOMAIN series |-> str_replace(series[i].v, old, new)])

\* re.search with re.IGNORECASE unless case is set.
contains_IgnoringCase(pat, case, x) == re_search(IgnoreCase(pat), x)

contains(pat, case, x) == re_search(IF case THEN pat ELSE IgnoreCase(pat), x)

\* Series.str.contains(pat, case=case)
str_contains(series, pat, case) ==
    StrMethod(series, [i \in DOMAIN series |-> contains(pat, case, series[i].v)])

\* Series.str.join(sep), on a Series of lists
str_join_lists(series, sep) ==
    StrMethod(series, [i \in DOMAIN series |-> str_join(sep, series[i].v)])

(***************************************************************************)
(* ftfy.fix_text, on the characters of the model: it decodes the mojibake  *)
(* of the ellipsis and straightens curly quotes (uncurl_quotes).           *)
(***************************************************************************)
ftfy_fix_text(x) ==
    LET a == str_replace(x, <<ACIRC, EURO, BRVBAR>>, <<HELLIP>>)
        b == str_replace(a, <<LDQUO>>, <<"\"">>)
        c == str_replace(b, <<RDQUO>>, <<"\"">>)
        d == str_replace(c, <<LSQUO>>, <<"'">>)
    IN  str_replace(d, <<RSQUO>>, <<"'">>)

\* bytes.decode("ascii", errors="ignore") of str.encode("utf-8"): every byte
\* of a non-ASCII character is >= 0x80 and is dropped.
EncodeDecodeAscii(x) == SelectSeq(x, LAMBDA c : c \in Ascii)

(***************************************************************************)
(* CleanseText                                                             *)
(***************************************************************************)
get_hyperlinks(series) == Returns(str_findall(series, URLLINK_RULE))

strip_elipses(series, token) == Returns(str_replace_regex(series, ELIPSES_RULE, token))

strip_encoding(series) ==
    Returns(StrMethod(series, [i \in DOMAIN series |-> EncodeDecodeAscii(series[i].v)]))

\* The rule without its [s]?.
URLLINK_RULE_NoTLS ==
    Pattern(Lits(<<"h", "t", "t", "p", ":", "/", "/">>) \o <<Cls(UrlChars, 1, -1)>>, 0)
strip_hyperlink_NoTLS(series, token) ==
    Returns(str_replace_regex(series, URLLINK_RULE_NoTLS, token))

strip_hyperlink(series, token) == Returns(str_replace_regex(series, URLLINK_RULE, token))

\* fix_text raises TypeError on a value that is not a str (it takes its len).
strip_mojibake(series) ==
    Apply(series, [i \in DOMAIN series |-> ftfy_fix_text(series[i].v)], "TypeError")

fix_text(series) == strip_mojibake(series)

\* r"(\\n)+": one or more copies of the two characters backslash, n.
NEWLINE_RULE == Pattern(<<Rep(<<{BACKSLASH}, {"n"}>>, 1, -1)>>, 0)

strip_newline(series) == Returns(str_replace_regex(series, NEWLINE_RULE, <<" ">>))

punctuation == <<"+", "_", ":", "!", ",", ".">>

strip_punctuation(series) == Returns(str_replace_literal(series, punctuation, <<>>))

\* "(^['\"]|['\"]$)"
QuoteChars == {"'", "\""}
QUOTE_ENDS_RULE ==
    [behind |-> <<>>,
     alts |-> <<<<Bol, Cls(QuoteChars, 1, 1)>>, <<Cls(QuoteChars, 1, 1), Eol>>>>,
     group |-> 0]

strip_quotes(series) ==
    LET doubles == str_replace_regex(series, DOUBLE_QUOTES, <<"\"">>)
        singles == str_replace_regex(doubles, SINGLE_QUOTES, <<"'">>)
    IN  Returns(str_replace_regex(singles, QUOTE_ENDS_RULE, <<>>))

\* "\s+" and "^\s+|\s+$"
SPACES_RULE == Pattern(<<Cls(Space, 1, -1)>>, 0)
SPACE_ENDS_RULE ==
    [behind |-> <<>>,
     alts |-> <<<<Bol, Cls(Space, 1, -1)>>, <<Cls(Space, 1, -1), Eol>>>>,
     group |-> 0]

strip_whitespace(series, token) ==
    Returns(str_replace_regex(str_replace_regex(series, SPACES_RULE, token),
                              SPACE_ENDS_RULE, <<>>))

(***************************************************************************)
(* TweetParser                                                             *)
(***************************************************************************)
\* The lambda without its x != "" test.
count_elements_NoEmptyCase(series, sep) ==
    Apply(series, [i \in DOMAIN series |-> Len(str_split(series[i].v, sep))],
          "AttributeError")

\* lambda x: len(x.split(sep) if x != "" else ""); a value that is not a str
\* has no split.
count_elements(series, sep) ==
    Apply(series,
          [i \in DOMAIN series |->
              Len(IF series[i].v # <<>> THEN str_split(series[i].v, sep) ELSE <<>>)],
          "AttributeError")

\* Counter(nan) raises TypeError: a float is not iterable.
get_emojis(series, counts, all_emojis) ==
    LET emoji_rule == IF all_emojis THEN EMOJI_EMOJI_ALL ELSE EMOJI_EMOJI_SET
        emojis == str_findall(series, emoji_rule)
    IN  IF counts
        THEN Apply(emojis, [i \in DOMAIN emojis |-> Counter(emojis[i].v)], "TypeError")
        ELSE Returns(emojis)

get_hashtags(series, sep) ==
    LET hashtags == str_findall(series, HASHTAG_RULE)
    IN  Returns(IF sep = <<>> THEN hashtags ELSE str_join_lists(hashtags, sep))

get_mentions(series, sep) ==
    LET mentions == str_findall(series, MENTION_RULE)
    IN  Returns(IF sep = <<>> THEN mentions ELSE str_join_lists(mentions, sep))

get_retweets(series) == Returns(str_findall(series, RETWEET_RULE))

has_hashtags(series, case_sensitive) ==
    Returns(str_contains(series, HASHTAG_RULE, case_sensitive))

has_mentions(series, case_sensitive) ==
    Returns(str_contains(series, MENTION_RULE, case_sensitive))

has_retweets(series, case_sensitive) ==
    Returns(str_contains(series, RETWEET_RULE, case_sensitive))

strip_hashtags(series, token) == Returns(str_replace_regex(series, HASHTAG_RULE, token))

\* The body of strip_hashtags, pasted and left as it was.
strip_mentions_AsHashtags(series, token) == strip_hashtags(series, token)

strip_mentions(series, token) == Returns(str_replace_regex(series, MENTION_RULE, token))

strip_retweets(series, token) == Returns(str_replace_regex(series, RETWEET_RULE, token))

(***************************************************************************)
(* The state machine.  obj is the Series the accessor wraps (self._obj),   *)
(* result and raised are what the last call returned or raised, call is    *)
(* that call with its arguments, and origin lists the calls obj was built  *)
(* by, each with the Series it was made on (empty for a Series the caller  *)
(* constructed).                                                           *)
(***************************************************************************)
NoCall == [op |-> "none", token |-> <<>>, sep |-> <<>>, flag |-> FALSE, all |-> FALSE]
CallOf(name, token, sep, flag, all) ==
    [op |-> name, token |-> token, sep |-> sep, flag |-> flag, all |-> all]

\* A method call: the Series is read, never assigned.
Invoke(c, r) ==
    /\ call' = c
    /\ result' = r.value
    /\ raised' = r.raised
    /\ UNCHANGED <<obj, origin>>

\* The methods that return a Series of text.
TextOps ==
    {"strip_elipses", "strip_encoding", "strip_hyperlink", "strip_mojibake",
     "fix_text", "strip_newline", "strip_punctuation", "strip_quotes",
     "strip_whitespace", "strip_hashtags", "strip_mentions", "strip_retweets"}

MaxChain == 1

\* series.tweet on the Series a call returned: TweetParser.__init__ wraps it.
\* Only a Series of text is wrapped again (Series.str refuses other values),
\* and at most MaxChain times.
Accessor ==
    /\ call.op \in TextOps
    /\ raised = "none"
    /\ Len(origin) < MaxChain
    /\ obj' = result
    /\ origin' = Append(origin, [call |-> call, input |-> obj])
    /\ call' = NoCall
    /\ result' = <<>>
    /\ raised' = "none"

\* The texts made of at most n of the fragments F, in any order.
RECURSIVE Concats(_, _)
Concats(F, n) ==
    IF n = 0 THEN {<<>>}
    ELSE LET P == Concats(F, n - 1) IN P \cup {p \o f : p \in P, f \in F}

InitWith(series) ==
    /\ obj \in series
    /\ result = <<>>
    /\ raised = "none"
    /\ call = NoCall
    /\ origin = <<>>

OneRow(texts) == {<<Cell(t)>> : t \in texts}

Tokens == {<<>>, <<" ">>}
Seps == {<<>>, <<",">>}
CountSeps == {<<";">>, <<"a", "a">>}

\* One action per method of the accessor; the arguments are drawn from
\* Tokens, Seps and BOOLEAN.
Call_fix_text ==
    Invoke(CallOf("fix_text", <<>>, <<>>, FALSE, FALSE), fix_text(obj))

Call_get_hyperlinks ==
    Invoke(CallOf("get_hyperlinks", <<>>, <<>>, FALSE, FALSE), get_hyperlinks(obj))

Call_strip_elipses ==
    \E token \in Tokens :
        Invoke(CallOf("strip_elipses", token, <<>>, FALSE, FALSE), strip_elipses(obj, token))

Call_strip_encoding ==
    Invoke(CallOf("strip_encoding", <<>>, <<>>, FALSE, FALSE), strip_encoding(obj))

Call_strip_hyperlink ==
    \E token \in Tokens :
        Invoke(CallOf("strip_hyperlink", token, <<>>, FALSE, FALSE), strip_hyperlink(obj, token))

Call_strip_mojibake ==
    Invoke(CallOf("strip_mojibake", <<>>, <<>>, FALSE, FALSE), strip_mojibake(obj))

Call_strip_newline ==
    Invoke(CallOf("strip_newline", <<>>, <<>>, FALSE, FALSE), strip_newline(obj))

Call_strip_punctuation ==
    Invoke(CallOf("strip_punctuation", <<>>, <<>>, FALSE, FALSE), strip_punctuation(obj))

Call_strip_quotes ==
    Invoke(CallOf("strip_quotes", <<>>, <<>>, FALSE, FALSE), strip_quotes(obj))

Call_strip_whitespace ==
    \E token \in Tokens :
        Invoke(CallOf("strip_whitespace", token, <<>>, FALSE, FALSE), strip_whitespace(obj, token))

Call_count_elements ==
    \E sep \in CountSeps :
        Invoke(CallOf("count_elements", <<>>, sep, FALSE, FALSE), count_elements(obj, sep))

Call_get_emojis ==
    \E counts \in BOOLEAN, all_emojis \in BOOLEAN :
        Invoke(CallOf("get_emojis", <<>>, <<>>, counts, all_emojis),
               get_emojis(obj, counts, all_emojis))

Call_get_hashtags ==
    \E sep \in Seps :
        Invoke(CallOf("get_hashtags", <<>>, sep, FALSE, FALSE), get_hashtags(obj, sep))

Call_get_mentions ==
    \E sep \in Seps :
        Invoke(CallOf("get_mentions", <<>>, sep, FALSE, FALSE), get_mentions(obj, sep))

Call_get_retweets ==
    Invoke(CallOf("get_retweets", <<>>, <<>>, FALSE, FALSE), get_retweets(obj))

Call_has_hashtags ==
    \E case_sensitive \in BOOLEAN :
        Invoke(CallOf("has_hashtags", <<>>, <<>>, case_sensitive, FALSE),
               has_hashtags(obj, case_sensitive))

Call_has_mentions ==
    \E case_sensitive \in BOOLEAN :
        Invoke(CallOf("has_mentions", <<>>, <<>>, case_sensitive, FALSE),
               has_mentions(obj, case_sensitive))

Call_has_retweets ==
    \E case_sensitive \in BOOLEAN :
        Invoke(CallOf("has_retweets", <<>>, <<>>, case_sensitive, FALSE),
               has_retweets(obj, case_sensitive))

Call_strip_hashtags ==
    \E token \in Tokens :
        Invoke(CallOf("strip_hashtags", token, <<>>, FALSE, FALSE), strip_hashtags(obj, token))

Call_strip_mentions ==
    \E token \in Tokens :
        Invoke(CallOf("strip_mentions", token, <<>>, FALSE, FALSE), strip_mentions(obj, token))

Call_strip_retweets ==
    \E token \in Tokens :
        Invoke(CallOf("strip_retweets", token, <<>>, FALSE, FALSE), strip_retweets(obj, token))

\* series.tweet.<c.op>(the arguments of c)
Dispatch(c, series) ==
    CASE c.op = "fix_text" -> fix_text(series)
      [] c.op = "get_hyperlinks" -> get_hyperlinks(series)
      [] c.op = "strip_elipses" -> strip_elipses(series, c.token)
      [] c.op = "strip_encoding" -> strip_encoding(series)
      [] c.op = "strip_hyperlink" -> strip_hyperlink(series, c.token)
      [] c.op = "strip_mojibake" -> strip_mojibake(series)
      [] c.op = "strip_newline" -> strip_newline(series)
      [] c.op = "strip_punctuation" -> strip_punctuation(series)
      [] c.op = "strip_quotes" -> strip_quotes(series)
      [] c.op = "strip_whitespace" -> strip_whitespace(series, c.token)
      [] c.op = "count_elements" -> count_elements(series, c.sep)
      [] c.op = "get_emojis" -> get_emojis(series, c.flag, c.all)
      [] c.op = "get_hashtags" -> get_hashtags(series, c.sep)
      [] c.op = "get_mentions" -> get_mentions(series, c.sep)
      [] c.op = "get_retweets" -> get_retweets(series)
      [] c.op = "has_hashtags" -> has_hashtags(series, c.flag)
      [] c.op = "has_mentions" -> has_mentions(series, c.flag)
      [] c.op = "has_retweets" -> has_retweets(series, c.flag)
      [] c.op = "strip_hashtags" -> strip_hashtags(series, c.token)
      [] c.op = "strip_mentions" -> strip_mentions(series, c.token)
      [] c.op = "strip_retweets" -> strip_retweets(series, c.token)


(***************************************************************************)
(* Mentions: get_mentions, strip_mentions.                                 *)
(***************************************************************************)
LongHandle == [i \in 1..HANDLE_MAX |-> "b"]
MentionFrags ==
    {<<"R", "T", " ">>, <<"@", "a", "b">>, <<"@">>, <<"a">>, <<":">>, <<" ">>,
     <<"@">> \o LongHandle}
MaxMentionFrags == 4

InitMention == InitWith(OneRow(Concats(MentionFrags, MaxMentionFrags)))
NextMention == Call_get_mentions \/ Call_strip_mentions
SpecMention == InitMention /\ [][NextMention]_vars

\* strip_mentions, then get_mentions on what it returned.
StripFrags ==
    {<<"R", "T", " ">>, <<"@", "a", "b">>, <<"@">>, <<"a">>, <<" ">>, <<"@">> \o LongHandle}
MaxStripFrags == 4

InitStripMention == InitWith(OneRow(Concats(StripFrags, MaxStripFrags)))
NextStripMention == Call_strip_mentions \/ Accessor \/ Call_get_mentions
SpecStripMention == InitStripMention /\ [][NextStripMention]_vars

(***************************************************************************)
(* What the mention rule is to find, stated on the text alone.             *)
(***************************************************************************)
\* The elements of a set of numbers, in increasing order.
RECURSIVE Ascending(_)
Ascending(S) ==
    IF S = {} THEN <<>>
    ELSE LET lo == CHOOSE a \in S : \A b \in S : a <= b
         IN  <<lo>> \o Ascending(S \ {lo})

\* The number of handle characters that follow position i, at most HANDLE_MAX.
HandleLen(x, i) ==
    CHOOSE n \in 0..HANDLE_MAX :
        /\ \A j \in 1..n : i + j <= Len(x) /\ x[i + j] \in HandleChars
        /\ n = HANDLE_MAX \/ i + n + 1 > Len(x) \/ x[i + n + 1] \notin HandleChars

\* x[i] is an @ with a handle of at least HANDLE_MIN characters.
HandleToken(x, i) == x[i] = "@" /\ HandleLen(x, i) >= HANDLE_MIN

\* RT and one whitespace character end just before position i.
AfterRT(x, i) == i >= 4 /\ x[i - 3] = "R" /\ x[i - 2] = "T" /\ x[i - 1] \in Space

\* The positions of the @ of a retweet attribution, RT @handle: .
AttributionHandles(x) ==
    {i \in 1..Len(x) :
        /\ HandleToken(x, i) /\ AfterRT(x, i)
        /\ i + HandleLen(x, i) + 1 <= Len(x)
        /\ x[i + HandleLen(x, i) + 1] = ":"}

ExpectedMentions(x) ==
    LET at == Ascending({i \in 1..Len(x) : HandleToken(x, i) /\ ~AfterRT(x, i)}
                            \ AttributionHandles(x))
    IN  [k \in DOMAIN at |-> SubSeq(x, at[k] + 1, at[k] + HandleLen(x, at[k]))]

\* C1: get_mentions (without sep) returns, for every text, the handles of
\* the @handle tokens that do not follow RT and a whitespace character, in
\* the order of the text, and none that belongs to a retweet attribution
\* RT @handle: .
C1_MentionsExcludeRetweet ==
    (call.op = "get_mentions" /\ call.sep = <<>>) =>
        /\ raised = "none"
        /\ \A i \in DOMAIN obj : result[i].v = ExpectedMentions(obj[i].v)

\* "RT @ab:@ab" yields exactly ["ab"].
C1_Witness ==
    /\ call.op = "get_mentions" /\ call.sep = <<>>
    /\ obj = <<Cell(<<"R", "T", " ", "@", "a", "b", ":", "@", "a", "b">>)>>
    /\ result = <<Cell(<<<<"a", "b">>>>)>>

\* No @ of the text is followed by more than HANDLE_MAX handle characters.
NoLongHandle(x) ==
    \A i \in 1..Len(x) :
        x[i] = "@" /\ HandleLen(x, i) = HANDLE_MAX =>
            i + HANDLE_MAX + 1 > Len(x) \/ x[i + HANDLE_MAX + 1] \notin HandleChars

\* No mention of the text ends in RT just before a whitespace character and
\* an @: removing such a mention takes the RT away from before that @.
NoMentionEndsInRT(x) ==
    \A i \in 1..Len(x) :
        HandleToken(x, i) /\ ~AfterRT(x, i) =>
            LET e == i + HandleLen(x, i) IN
            ~(/\ x[e - 1] = "R" /\ x[e] = "T"
              /\ e + 2 <= Len(x) /\ x[e + 1] \in Space /\ x[e + 2] = "@")

StripThenGetMentions ==
    /\ Len(origin) = 1
    /\ origin[1].call.op = "strip_mentions" /\ origin[1].call.token = <<>>
    /\ call.op = "get_mentions" /\ call.sep = <<>>

\* C10 as stated: strip_mentions with the empty token and then get_mentions
\* yields an empty list for every text.
C10_StripThenGetEmpty ==
    StripThenGetMentions => \A i \in DOMAIN result : result[i].v = <<>>

\* C10, amended: ... for every text in which no @ is followed by more than
\* 15 handle characters and no removed mention ends in RT just before a
\* whitespace character and an @.
C10_StripThenGetEmptyAmended ==
    StripThenGetMentions =>
        \A i \in DOMAIN result :
            LET x == origin[1].input[i].v IN
            NoLongHandle(x) /\ NoMentionEndsInRT(x) => result[i].v = <<>>

\* Two mentions are removed, one of them preceded by the @ of a one-letter
\* handle, and nothing is left to find.
C10_Witness ==
    /\ StripThenGetMentions
    /\ origin[1].input = <<Cell(<<"@", "a", "@", "a", "b", "@", "a", "b">>)>>
    /\ obj = <<Cell(<<"@", "a">>)>>
    /\ result = <<Cell(<<>>)>>

(***************************************************************************)
(* Presence flags and extractions: has_* against get_*.                    *)
(***************************************************************************)
FlagFrags ==
    {<<"R", "T", " ">>, <<"r", "t", " ">>, <<"@", "a", "b">>, <<":">>,
     <<"#">>, <<"a">>, <<" ">>}
MaxFlagFrags == 3

InitFlags == InitWith(OneRow(Concats(FlagFrags, MaxFlagFrags)))
NextFlags ==
    \/ Call_has_hashtags \/ Call_has_mentions \/ Call_has_retweets
    \/ Call_get_hashtags \/ Call_get_mentions \/ Call_get_retweets
SpecFlags == InitFlags /\ [][NextFlags]_vars

\* The extraction that goes with a presence flag, on the same Series.
ExtractionOf(op, series) ==
    CASE op = "has_hashtags" -> get_hashtags(series, <<>>)
      [] op = "has_mentions" -> get_mentions(series, <<>>)
      [] op = "has_retweets" -> get_retweets(series)

FlagOps == {"has_hashtags", "has_mentions", "has_retweets"}

FlagAgrees ==
    \A i \in DOMAIN result :
        result[i].v = (Len(ExtractionOf(call.op, obj).value[i].v) > 0)

\* C9 as stated: with the default case_sensitive=False each flag is true
\* exactly when its extraction is not empty.
C9_FlagsAgreeByDefault ==
    (call.op \in FlagOps /\ ~call.flag) => FlagAgrees

\* C9, amended: with case_sensitive=True each flag is true exactly when its
\* extraction is not empty; with the default this holds of has_hashtags
\* (on ASCII text), not of has_mentions and has_retweets.
C9_FlagsAgreeCaseSensitive ==
    (call.op \in FlagOps /\ (call.flag \/ call.op = "has_hashtags")) => FlagAgrees

\* has_retweets(case_sensitive=True) on "rt @ab:" is false, as get_retweets
\* finds nothing.
C9_Witness ==
    /\ call.op = "has_retweets" /\ call.flag
    /\ obj = <<Cell(<<"r", "t", " ", "@", "a", "b", ":">>)>>
    /\ result = <<Cell(FALSE)>>

(***************************************************************************)
(* Hyperlinks: strip_hyperlink, then get_hyperlinks.                       *)
(***************************************************************************)
UrlFrags ==
    {<<"h", "t", "t", "p", ":", "/", "/", "a">>, <<"h", "t", "t", "p", "s", ":", "/", "/">>,
     <<"h", "t">>, <<"t", "p", ":", "/", "/">>, <<"a">>, <<" ">>}
MaxUrlFrags == 4

InitLinks == InitWith(OneRow(Concats(UrlFrags, MaxUrlFrags)))
NextLinks == Call_strip_hyperlink \/ Call_get_hyperlinks \/ Accessor
SpecLinks == InitLinks /\ [][NextLinks]_vars

\* C2: strip_hyperlink with the default empty token and then get_hyperlinks
\* yields an empty list for every text.
C2_StripThenGetLinksEmpty ==
    (/\ Len(origin) = 1
     /\ origin[1].call.op = "strip_hyperlink" /\ origin[1].call.token = <<>>
     /\ call.op = "get_hyperlinks")
        => \A i \in DOMAIN result : result[i].v = <<>>

\* Two links are removed from "hthttp://a http://a" and what is left, "ht ",
\* holds none.
C2_Witness ==
    /\ Len(origin) = 1
    /\ origin[1].call.op = "strip_hyperlink" /\ origin[1].call.token = <<>>
    /\ origin[1].input =
         <<Cell(<<"h", "t", "h", "t", "t", "p", ":", "/", "/", "a", " ",
                  "h", "t", "t", "p", ":", "/", "/", "a">>)>>
    /\ call.op = "get_hyperlinks"
    /\ obj = <<Cell(<<"h", "t", " ">>)>>
    /\ result = <<Cell(<<>>)>>

(***************************************************************************)
(* count_elements                                                          *)
(***************************************************************************)
CountChars == {"a", "b", "c", ";"}
MaxCountLen == 5

RECURSIVE Strings(_, _)
Strings(A, n) ==
    IF n = 0 THEN {<<>>}
    ELSE LET P == Strings(A, n - 1) IN P \cup {Append(p, c) : p \in P, c \in A}

InitCount == InitWith(OneRow(Strings(CountChars, MaxCountLen)))
NextCount == Call_count_elements
SpecCount == InitCount /\ [][NextCount]_vars

\* str.count(sep): the occurrences of sep, counted left to right without
\* overlap.
RECURSIVE Occurrences(_, _, _)
Occurrences(x, sep, pos) ==
    IF pos + Len(sep) - 1 > Len(x) THEN 0
    ELSE IF SubSeq(x, pos, pos + Len(sep) - 1) = sep
         THEN 1 + Occurrences(x, sep, pos + Len(sep))
         ELSE Occurrences(x, sep, pos + 1)

\* C3: count_elements returns 0 for the empty string and otherwise one more
\* than the number of non-overlapping occurrences of sep.
C3_CountDelimited ==
    call.op = "count_elements" =>
        /\ raised = "none"
        /\ \A i \in DOMAIN obj :
              result[i].v = IF obj[i].v = <<>> THEN 0
                            ELSE 1 + Occurrences(obj[i].v, call.sep, 1)

\* "a;b;c" with sep ";" gives 3.
C3_Witness ==
    /\ call.op = "count_elements" /\ call.sep = <<";">>
    /\ obj = <<Cell(<<"a", ";", "b", ";", "c">>)>>
    /\ result = <<Cell(3)>>

(***************************************************************************)
(* strip_quotes                                                            *)
(***************************************************************************)
EscapedLDQUO ==
    <<BACKSLASH, "x", "e", "2", BACKSLASH, "x", "8", "0", BACKSLASH, "x", "9", "c">>
QuoteFrags ==
    {<<"\"">>, <<"'">>, <<LDQUO>>, <<RDQUO>>, <<LSQUO>>, <<"a">>, <<LF>>, EscapedLDQUO}
MaxQuoteFrags == 3

InitQuotes == InitWith(OneRow(Concats(QuoteFrags, MaxQuoteFrags)))
NextQuotes == Call_strip_quotes
SpecQuotes == InitQuotes /\ [][NextQuotes]_vars

\* Every curly quote character replaced by the straight one.
Uncurl(x) ==
    [i \in DOMAIN x |->
        IF x[i] \in {LDQUO, RDQUO} THEN "\""
        ELSE IF x[i] \in {LSQUO, RSQUO} THEN "'" ELSE x[i]]

\* One quote character taken from the start if there is one, then one from
\* the end if there is one.
TrimQuoteEnds(y) ==
    LET a == IF y # <<>> /\ y[1] \in QuoteChars THEN Tail(y) ELSE y
    IN  IF a # <<>> /\ a[Len(a)] \in QuoteChars THEN SubSeq(a, 1, Len(a) - 1) ELSE a

\* C4 as stated: strip_quotes replaces every curly quote character by the
\* straight one, then removes one quote character from the start and one
\* from the end if present, and changes nothing else.
C4_StripQuotes ==
    call.op = "strip_quotes" =>
        \A i \in DOMAIN obj : result[i].v = TrimQuoteEnds(Uncurl(obj[i].v))

(***************************************************************************)
(* strip_newline                                                           *)
(***************************************************************************)
NewlineFrags == {<<LF>>, <<"a">>, <<BACKSLASH>>, <<"n">>, <<" ">>}
MaxNewlineFrags == 4

InitNewline == InitWith(OneRow(Concats(NewlineFrags, MaxNewlineFrags)))
NextNewline == Call_strip_newline
SpecNewline == InitNewline /\ [][NextNewline]_vars

\* Every maximal run of newline characters replaced by one copy of token.
RECURSIVE CollapseNewlines(_, _)
CollapseNewlines(x, token) ==
    IF x = <<>> THEN <<>>
    ELSE IF Head(x) # LF THEN <<Head(x)>> \o CollapseNewlines(Tail(x), token)
    ELSE IF Len(x) > 1 /\ x[2] = LF THEN CollapseNewlines(Tail(x), token)
    ELSE token \o CollapseNewlines(Tail(x), token)

\* C5 as stated, for the default token: strip_newline replaces every maximal
\* run of newline characters by one space and changes nothing else.
C5_StripNewlines ==
    call.op = "strip_newline" =>
        \A i \in DOMAIN obj : result[i].v = CollapseNewlines(obj[i].v, <<" ">>)

(***************************************************************************)
(* strip_punctuation                                                       *)
(***************************************************************************)
PunctFrags ==
    {<<"+">>, <<"_">>, <<":">>, <<"!">>, <<",">>, <<".">>, <<"a">>, punctuation}
MaxPunctFrags == 3

InitPunct == InitWith(OneRow(Concats(PunctFrags, MaxPunctFrags)))
NextPunct == Call_strip_punctuation
SpecPunct == InitPunct /\ [][NextPunct]_vars

PunctuationSet == {punctuation[i] : i \in DOMAIN punctuation}

\* C6 as stated: strip_punctuation removes every + _ : ! , . and leaves the
\* other characters as they are, in order.
C6_StripPunctuation ==
    call.op = "strip_punctuation" =>
        \A i \in DOMAIN obj :
            result[i].v = SelectSeq(obj[i].v, LAMBDA c : c \notin PunctuationSet)

(***************************************************************************)
(* Every method, on Series of several rows, some of them missing values.   *)
(***************************************************************************)
RowTexts ==
    {<<>>,
     <<"R", "T", " ", "@", "a", "b", ":", "#", "a">>,
     <<" ", "h", "t", "t", "p", ":", "/", "/", "a", " ", ".", ".">>,
     <<LDQUO, GRIN, "a", ACIRC, EURO, BRVBAR>>,
     <<"a", ";", "b", LF>>}
MaxRows == 2

RECURSIVE Columns(_, _)
Columns(cells, n) ==
    IF n = 0 THEN {<<>>}
    ELSE LET P == Columns(cells, n - 1) IN P \cup {Append(p, c) : p \in P, c \in cells}

Init == InitWith(Columns({Cell(t) : t \in RowTexts} \cup {NaN}, MaxRows))
Next ==
    \/ Call_count_elements \/ Call_get_emojis
    \/ Call_get_hashtags \/ Call_get_mentions \/ Call_get_retweets
    \/ Call_has_hashtags \/ Call_has_mentions \/ Call_has_retweets
    \/ Call_strip_hashtags \/ Call_strip_mentions \/ Call_strip_retweets
    \/ Call_fix_text \/ Call_get_hyperlinks \/ Call_strip_elipses
    \/ Call_strip_encoding \/ Call_strip_hyperlink \/ Call_strip_mojibake
    \/ Call_strip_newline \/ Call_strip_punctuation \/ Call_strip_quotes
    \/ Call_strip_whitespace
Spec == Init /\ [][Next]_vars

AllText(series) == \A i \in DOMAIN series : ~series[i].na

\* C7: a call on a Series of text values raises nothing and returns a Series
\* with as many rows, whose row i is what the same call returns for the
\* one-row Series of row i; the Series it was made on is left as it was.
C7_RowWise ==
    [][AllText(obj) =>
          /\ obj' = obj
          /\ raised' = "none"
          /\ Len(result') = Len(obj)
          /\ \A i \in DOMAIN obj :
                result'[i] = Dispatch(call', <<obj[i]>>).value[1]]_vars

\* get_hashtags on two rows: the second row's tag stays in the second row.
C7_Witness ==
    /\ call.op = "get_hashtags" /\ call.sep = <<>>
    /\ obj = <<Cell(<<>>), Cell(<<"R", "T", " ", "@", "a", "b", ":", "#", "a">>)>>
    /\ result = <<Cell(<<>>), Cell(<<<<"a">>>>)>>

\* C8 as stated: with an element that is not text, every call fails with
\* InvalidInputKind.
C8_NonTextRaises ==
    (call.op # "none" /\ ~AllText(obj)) => raised = "InvalidInputKind"

====
